---- MODULE Spec2Model ----
(***************************************************************************)
(* Process Manager: the resource-monitoring subsystem.                     *)
(*                                                                         *)
(* The command loop (command_handler.cpp) starts, pauses, resumes and      *)
(* stops three detached sampling threads (resource_monitor.cpp):           *)
(* monitorCpu, monitorMemory and monitorProcesses.  The threads share the  *)
(* map `processes` under `processMutex` and poll the atomic flags          *)
(* `monitoringActive` and `monitoringPaused`.  The operating system's      *)
(* process table (/proc) is the environment.                               *)
(***************************************************************************)
EXTENDS Integers, Sequences, FiniteSets, TLC

(***************************************************************************)
(* Bounds of the model.                                                    *)
(***************************************************************************)
\* number of start_monitor commands the command loop accepts in one run
MaxStarts == 2
\* largest value of the system-wide CPU-time counter of /proc/stat
MaxDelta == 3
MaxCores == 2
MaxTicks == 2

\* the process ids the operating system hands out
Pids == {1}
\* what a process looks like in /proc: owner, command name, resident memory.
\* A process may change from one profile to the other while it runs.
Profiles == {"A", "B"}
ProfUser(prof) == IF prof = "A" THEN "alice" ELSE "bob"
ProfCommand(prof) == IF prof = "A" THEN "sh" ELSE "vi"
ProfMem(prof) == IF prof = "A" THEN 1 ELSE 2

NoProc == [prof |-> "none", ticks |-> 0]

\* The sampling threads: the k-th accepted start_monitor spawns the threads
\* 3k-2 (monitorCpu), 3k-1 (monitorMemory) and 3k (monitorProcesses).
Workers == 1..(3 * MaxStarts)
Kind(w) == CASE w % 3 = 1 -> "cpu" [] w % 3 = 2 -> "mem" [] OTHER -> "disp"
CpuWorkers == {w \in Workers : Kind(w) = "cpu"}
MemWorkers == {w \in Workers : Kind(w) = "mem"}
DispWorkers == {w \in Workers : Kind(w) = "disp"}

VARIABLES
    \* globals.cpp
    monitoringActive,       \* std::atomic<bool>
    monitoringPaused,       \* std::atomic<bool>
    sortingCriterion,       \* std::string, "cpu" or "memory"
    filterCriterion,        \* std::pair<std::string, std::string>
    processes,              \* std::unordered_map<int, Process>
    processMutex,           \* 0 when free, else the thread that holds it
    \* command_handler.cpp
    running,                \* the command loop has not left its while (true)
    starts,                 \* number of start_monitor commands accepted so far
    report,                 \* what start_monitor, a stop_monitor that stopped
                            \* the monitor, the interrupt handler or log last
                            \* wrote to the console
    \* resource_monitor.cpp: one entry per sampling thread
    pc,                     \* position of the thread in its function
    previousTotalCpuTime,   \* monitorCpu's local
    totalCpuTimeDelta,      \* monitorCpu's local
    activeProcesses,        \* the vector returned by getActiveProcesses()
    it,                     \* index of the range-for over activeProcesses
    processesVector,        \* monitorProcesses' local
    wokeInactive,           \* threads in a cycle whose interval sleep ended
                            \* with monitoringActive false
    screen,                 \* what printProcesses last put on the terminal
    vanished,               \* pids with a record that the latest completed
                            \* CPU cycle did not find in /proc and that no
                            \* CPU cycle has sampled since
    \* the operating system
    procfs,                 \* /proc/<pid>: profile and cumulative CPU time
    statTicks,              \* /proc/stat: cumulative CPU time of the system
    statReadable,           \* /proc/stat can be opened
    protected,              \* pids the program has no permission to signal
    \* globals.cpp
    updateFrequency,        \* std::atomic<int>, seconds between two samples
    \* process_control.cpp, as called from the command loop
    ctl,                    \* the process-control operation the command
                            \* thread is in, or has last completed
    kills,                  \* kill(pid, SIGKILL) calls made by that operation
    \* test_concurrent_updates.cpp
    test,                   \* the threads of CPUAndMemorySynchronization
    written,                \* the record each of them last stored per pid
    \* logger.cpp
    logger,                 \* Logger::m_active and the file m_logFile is open on
    m_queue,                \* Logger::m_queue, the messages not yet taken
    m_logFile,              \* the lines written to the log file
    m_queueMutex,           \* Logger::m_queueMutex: 0, or the thread holding it
    lpc,                    \* where the thread of Logger::processQueue is
    logMsg,                 \* processQueue's local
    call,                   \* per thread that calls the Logger: where it is
                            \* in log() or stop(), the calls it still has to
                            \* make, and for the command thread the way the
                            \* command loop was left
    \* resource_monitor.cpp
    retained,               \* per CPU thread that has waited in its pause loop
                            \* in this pass of its while loop: the baselines
                            \* it had while it waited
    usageCall,              \* a call of calculateCpuUsage on its own: the
                            \* arguments and, once it has returned, the value
    sampledAt               \* per pid: the system counter the CPU thread had
                            \* read in the cycle that last stored the record's
                            \* prevTotalTime, -1 when none has

globalVars == <<monitoringActive, monitoringPaused, sortingCriterion, filterCriterion>>
cmdVars == <<running, starts, report>>
cpuLocals == <<previousTotalCpuTime, totalCpuTimeDelta>>
loopLocals == <<activeProcesses, it>>
osVars == <<procfs, statTicks, statReadable>>
workerVars == <<pc, previousTotalCpuTime, totalCpuTimeDelta, activeProcesses,
                it, processesVector, wokeInactive, screen, vanished>>
loggerVars == <<m_queue, m_logFile, m_queueMutex, lpc, logMsg, call>>
sideVars == <<logger, loggerVars, retained, usageCall, sampledAt>>
extVars == <<protected, updateFrequency, ctl, kills, test, written, sideVars>>
\* extVars without the baselines a waiting thread had
settingVars == <<protected, updateFrequency, ctl, kills, test, written, logger,
                 loggerVars,
                 usageCall, sampledAt>>
\* extVars without the cycle of the last sample
unstampedVars == <<protected, updateFrequency, ctl, kills, test, written, logger,
                   loggerVars,
                   retained, usageCall>>
vars == <<monitoringActive, monitoringPaused, sortingCriterion, filterCriterion,
          processes, processMutex, running, starts, report, pc,
          previousTotalCpuTime, totalCpuTimeDelta, activeProcesses, it,
          processesVector, wokeInactive, screen, vanished, procfs, statTicks,
          statReadable, protected, updateFrequency, ctl, kills, test, written,
          logger, m_queue, m_logFile, m_queueMutex, lpc, logMsg, call,
          retained, usageCall, sampledAt>>

(***************************************************************************)
(* Values of type double that the program computes are kept as reduced     *)
(* fractions num/den with den > 0.                                         *)
(***************************************************************************)
Abs(x) == IF x < 0 THEN -x ELSE x

RECURSIVE Gcd(_, _)
Gcd(a, b) == IF b = 0 THEN a ELSE Gcd(b, a % b)

Frac(n, d) ==
    IF n = 0 THEN [num |-> 0, den |-> 1]
    ELSE LET g == Gcd(Abs(n), Abs(d))
             s == IF d < 0 THEN -1 ELSE 1
         IN  [num |-> (s * n) \div g, den |-> (s * d) \div g]

Zero == Frac(0, 1)
FracOfInt(n) == Frac(n, 1)
FracLess(a, b) == a.num * b.den < b.num * a.den
FracLeq(a, b) == a.num * b.den <= b.num * a.den
FracPlus(a, b) == Frac(a.num * b.den + b.num * a.den, a.den * b.den)

(***************************************************************************)
(* process_info.h: struct Process, and the record std::unordered_map's     *)
(* operator[] value-initialises for a key it does not hold.                *)
(***************************************************************************)
Process(pid, user, cpuUsage, memoryUsage, prevTotalTime, command) ==
    [pid |-> pid, user |-> user, cpuUsage |-> cpuUsage,
     memoryUsage |-> memoryUsage, prevTotalTime |-> prevTotalTime,
     command |-> command]

DefaultProcess == Process(0, "", Zero, 0, 0, "")

\* processes[pid]: the record, inserted value-initialised when absent
At(map, pid) == IF pid \in DOMAIN map THEN map[pid] ELSE DefaultProcess

\* a store that builds the map anew from the record it is given
PutReplacing(map, pid, rec) == [p \in {pid} |-> rec]

Put(map, pid, rec) ==
    [p \in (DOMAIN map) \cup {pid} |-> IF p = pid THEN rec ELSE map[p]]

(***************************************************************************)
(* The readers of /proc.                                                   *)
(***************************************************************************)
Alive(p) == procfs[p] # NoProc

\* resource_monitor.cpp getTotalCpuTime: 0 when /proc/stat cannot be opened
getTotalCpuTime == IF statReadable THEN statTicks ELSE 0

\* resource_monitor.cpp getProcessTotalTime: 0 when /proc/<pid>/stat cannot
\* be opened, which is the case once the process has exited
getProcessTotalTime(pid) == IF Alive(pid) THEN procfs[pid].ticks ELSE 0

\* sysconf(_SC_NPROCESSORS_ONLN)
numCores == 2

\* a usage that leaves the number of cores out
calculateCpuUsageOneCore(processTimeDelta, totalCpuTimeDelta_, numCores_) ==
    IF totalCpuTimeDelta_ = 0 THEN Zero
    ELSE Frac(processTimeDelta * 100, totalCpuTimeDelta_)

\* resource_monitor.cpp calculateCpuUsage
calculateCpuUsage(processTimeDelta, totalCpuTimeDelta_, numCores_) ==
    IF totalCpuTimeDelta_ = 0 THEN Zero
    ELSE Frac(processTimeDelta * numCores_ * 100, totalCpuTimeDelta_)

\* no call of calculateCpuUsage on its own is under way
NoCall == [processTimeDelta |-> 0, totalCpuTimeDelta |-> 0, numCores |-> 0,
           cpuUsage |-> Zero, returned |-> FALSE]

\* calculateCpuUsage called with the arguments in usageCall returns
CalculateCpuUsageCall ==
    /\ ~usageCall.returned
    /\ usageCall' = [usageCall EXCEPT
           !.cpuUsage = calculateCpuUsage(usageCall.processTimeDelta,
                                          usageCall.totalCpuTimeDelta,
                                          usageCall.numCores),
           !.returned = TRUE]
    /\ UNCHANGED <<monitoringActive, monitoringPaused, sortingCriterion,
                   filterCriterion, processes, processMutex, running, starts,
                   report, pc, previousTotalCpuTime, totalCpuTimeDelta,
                   activeProcesses, it, processesVector, wokeInactive, screen,
                   vanished, procfs, statTicks, statReadable, protected,
                   updateFrequency, ctl, kills, test, written, logger,
                   loggerVars, retained, sampledAt>>

\* The pids in ascending order, as readdir("/proc") lists them
RECURSIVE SeqOfSet(_)
SeqOfSet(S) ==
    IF S = {} THEN <<>>
    ELSE LET m == CHOOSE x \in S : \A y \in S : x <= y
         IN  <<m>> \o SeqOfSet(S \ {m})

\* process_info.cpp getActiveProcesses: pid, user, memoryUsage and command
\* are set; cpuUsage and prevTotalTime are left unset and every caller
\* overwrites them before they are read
getActiveProcesses ==
    LET live == SeqOfSet({p \in DOMAIN procfs : Alive(p)})
    IN  [i \in 1..Len(live) |->
            [pid |-> live[i],
             user |-> ProfUser(procfs[live[i]].prof),
             memoryUsage |-> ProfMem(procfs[live[i]].prof),
             command |-> ProfCommand(procfs[live[i]].prof)]]

EnumPids(w) == {activeProcesses[w][i].pid : i \in 1..Len(activeProcesses[w])}


(***************************************************************************)
(* resource_monitor.cpp: the loop head the three thread functions share    *)
(* (monitorCpu 91-106, monitorMemory 135-148, monitorProcesses 168-181).   *)
(***************************************************************************)
Goto(w, label) == pc' = [pc EXCEPT ![w] = label]

\* no baseline is on record for a thread that has not waited
NoBaseline == [waited |-> FALSE, total |-> 0, prev |-> [p \in Pids |-> 0]]

\* what monitorCpu holds while it waits at line 99: its local
\* previousTotalCpuTime and the prevTotalTime of every record
Baseline(w) ==
    [waited |-> TRUE, total |-> previousTotalCpuTime[w],
     prev |-> [p \in Pids |-> At(processes, p).prevTotalTime]]

\* the thread function returns, or its loop body ends
Forget(w) == retained' = [retained EXCEPT ![w] = NoBaseline]

\* monitorCpu, line 92: the first baseline of the system counter.  (The
\* other two thread functions begin at their while loop.)
CpuBaseline(w) ==
    /\ pc[w] = "start"
    /\ Kind(w) = "cpu"
    /\ Goto(w, "loop")
    /\ previousTotalCpuTime' =
            [previousTotalCpuTime EXCEPT ![w] = getTotalCpuTime]
    /\ UNCHANGED <<extVars, globalVars, processes, processMutex, cmdVars, totalCpuTimeDelta,
                   loopLocals, processesVector, wokeInactive, screen, vanished, osVars>>

\* while (monitoringActive.load()); the thread function returns when it fails
LoopCondition(w) ==
    /\ pc[w] = "loop"
    /\ IF monitoringActive
       THEN /\ Goto(w, "paused")
            /\ UNCHANGED <<previousTotalCpuTime, retained>>
       ELSE /\ Goto(w, "done")
            /\ previousTotalCpuTime' = [previousTotalCpuTime EXCEPT ![w] = 0]
            /\ Forget(w)
    /\ UNCHANGED <<settingVars, globalVars, processes, processMutex, cmdVars, totalCpuTimeDelta,
                   loopLocals, processesVector, wokeInactive, screen, vanished, osVars>>

\* a pause loop that polls the pause flag alone
PauseConditionFlagOnly == monitoringPaused

\* while (monitoringPaused.load() && monitoringActive.load()) sleep_for(100ms)
PauseCondition == monitoringPaused /\ monitoringActive

\* a pause loop that takes a new baseline of the system counter when it is
\* left, as a thread that starts afresh would
PauseLoopRebasing(w) ==
    /\ pc[w] = "paused"
    /\ IF PauseCondition
       THEN /\ UNCHANGED <<pc, previousTotalCpuTime>>
            /\ retained' = IF Kind(w) = "cpu"
                           THEN [retained EXCEPT ![w] = Baseline(w)]
                           ELSE retained
       ELSE /\ Goto(w, "check")
            /\ previousTotalCpuTime' =
                   [previousTotalCpuTime EXCEPT ![w] = getTotalCpuTime]
            /\ UNCHANGED retained
    /\ UNCHANGED <<settingVars, globalVars, processes, processMutex, cmdVars,
                   totalCpuTimeDelta, loopLocals, processesVector, wokeInactive,
                   screen, vanished, osVars>>

PauseLoop(w) ==
    /\ pc[w] = "paused"
    /\ IF PauseCondition
       THEN /\ UNCHANGED pc
            /\ retained' = IF Kind(w) = "cpu"
                           THEN [retained EXCEPT ![w] = Baseline(w)]
                           ELSE retained
       ELSE /\ Goto(w, "check")
            /\ UNCHANGED retained
    /\ UNCHANGED <<settingVars, globalVars, processes, processMutex, cmdVars, cpuLocals,
                   loopLocals, processesVector, wokeInactive, screen, vanished, osVars>>

\* if (!monitoringActive.load()) break;
BreakCheck(w) ==
    /\ pc[w] = "check"
    /\ IF ~monitoringActive
       THEN /\ Goto(w, "done")
            /\ previousTotalCpuTime' = [previousTotalCpuTime EXCEPT ![w] = 0]
            /\ Forget(w)
       ELSE /\ Goto(w, "sleep")
            /\ UNCHANGED <<previousTotalCpuTime, retained>>
    /\ UNCHANGED <<settingVars, globalVars, processes, processMutex, cmdVars, totalCpuTimeDelta,
                   loopLocals, processesVector, wokeInactive, screen, vanished, osVars>>

\* The statement that follows sleep_for(seconds(updateFrequency)): the three
\* functions go on to sample (cpu, memory) or to lock the map (display).
AfterSleep(w) == IF Kind(w) = "disp" THEN "lock" ELSE "sample"

\* std::this_thread::sleep_for(std::chrono::seconds(updateFrequency.load()))
\* returns
IntervalSleep(w) ==
    /\ pc[w] = "sleep"
    /\ Goto(w, AfterSleep(w))
    /\ wokeInactive' = IF monitoringActive THEN wokeInactive
                       ELSE wokeInactive \cup {w}
    /\ UNCHANGED <<extVars, globalVars, processes, processMutex, cmdVars, cpuLocals,
                   loopLocals, processesVector, screen, vanished, osVars>>

\* a thread that enters its block without waiting for the mutex
LockWithoutWaiting(w) ==
    /\ pc[w] = "lock"
    /\ processMutex' = w
    /\ Goto(w, "publish")
    /\ UNCHANGED <<extVars, globalVars, processes, cmdVars, cpuLocals, loopLocals,
                   processesVector, wokeInactive, screen, vanished, osVars>>

\* std::lock_guard<std::mutex> lock(processMutex)
Lock(w) ==
    /\ pc[w] = "lock"
    /\ processMutex = 0
    /\ processMutex' = w
    /\ Goto(w, "publish")
    /\ UNCHANGED <<extVars, globalVars, processes, cmdVars, cpuLocals, loopLocals,
                   processesVector, wokeInactive, screen, vanished, osVars>>

(***************************************************************************)
(* monitorCpu, lines 108-127.                                              *)
(***************************************************************************)
CpuSample(w) ==
    /\ pc[w] = "sample"
    /\ Kind(w) = "cpu"
    /\ LET totalCpuTime == getTotalCpuTime
       IN  /\ totalCpuTimeDelta' = [totalCpuTimeDelta EXCEPT
                  ![w] = totalCpuTime - previousTotalCpuTime[w]]
           /\ previousTotalCpuTime' =
                  [previousTotalCpuTime EXCEPT ![w] = totalCpuTime]
    /\ activeProcesses' = [activeProcesses EXCEPT ![w] = getActiveProcesses]
    /\ it' = [it EXCEPT ![w] = 1]
    /\ Goto(w, "lock")
    /\ UNCHANGED <<extVars, globalVars, processes, processMutex, cmdVars,
                   processesVector, wokeInactive, screen, vanished, osVars>>

\* one iteration of  for (auto& process : activeProcesses)
CpuUpdate(map, process, delta) ==
    LET totalProcessTime == getProcessTotalTime(process.pid)
        processTimeDelta == totalProcessTime - At(map, process.pid).prevTotalTime
    IN  Put(map, process.pid,
            Process(process.pid, process.user,
                    calculateCpuUsage(processTimeDelta, delta, numCores),
                    process.memoryUsage, totalProcessTime, process.command))

CpuPublish(w) ==
    /\ pc[w] = "publish"
    /\ Kind(w) = "cpu"
    /\ it[w] <= Len(activeProcesses[w])
    /\ processes' = CpuUpdate(processes, activeProcesses[w][it[w]],
                              totalCpuTimeDelta[w])
    /\ it' = [it EXCEPT ![w] = it[w] + 1]
    /\ vanished' = vanished \ {activeProcesses[w][it[w]].pid}
    /\ sampledAt' = [sampledAt EXCEPT
           ![activeProcesses[w][it[w]].pid] = previousTotalCpuTime[w]]
    /\ UNCHANGED <<unstampedVars, globalVars, processMutex, cmdVars, pc, cpuLocals,
                   activeProcesses, processesVector, wokeInactive, screen, osVars>>

\* the end of the locked block and of the loop body: the lock_guard releases
\* the mutex and the locals of the body go out of scope
Unlock(w) ==
    /\ pc[w] = "publish"
    /\ Kind(w) \in {"cpu", "mem"}
    /\ it[w] > Len(activeProcesses[w])
    /\ processMutex' = 0
    /\ activeProcesses' = [activeProcesses EXCEPT ![w] = <<>>]
    /\ it' = [it EXCEPT ![w] = 1]
    /\ totalCpuTimeDelta' = [totalCpuTimeDelta EXCEPT ![w] = 0]
    /\ Goto(w, "loop")
    /\ wokeInactive' = wokeInactive \ {w}
    /\ vanished' = IF Kind(w) = "cpu"
                   THEN vanished \cup ((DOMAIN processes) \ EnumPids(w))
                   ELSE vanished
    /\ Forget(w)
    /\ UNCHANGED <<settingVars, globalVars, processes, cmdVars, previousTotalCpuTime,
                   processesVector, screen, osVars>>

monitorCpu(w) ==
    /\ Kind(w) = "cpu"
    /\ \/ CpuBaseline(w) \/ LoopCondition(w) \/ PauseLoop(w) \/ BreakCheck(w)
       \/ IntervalSleep(w) \/ CpuSample(w) \/ Lock(w) \/ CpuPublish(w)
       \/ Unlock(w)

(***************************************************************************)
(* monitorMemory, lines 150-161.                                           *)
(***************************************************************************)
MemSample(w) ==
    /\ pc[w] = "sample"
    /\ Kind(w) = "mem"
    /\ activeProcesses' = [activeProcesses EXCEPT ![w] = getActiveProcesses]
    /\ it' = [it EXCEPT ![w] = 1]
    /\ Goto(w, "lock")
    /\ UNCHANGED <<extVars, globalVars, processes, processMutex, cmdVars, cpuLocals,
                   processesVector, wokeInactive, screen, vanished, osVars>>

\* one iteration of  for (auto& process : activeProcesses)
MemUpdate(map, process) ==
    Put(map, process.pid,
        [At(map, process.pid) EXCEPT !.memoryUsage = process.memoryUsage,
                                     !.command = process.command,
                                     !.user = process.user])

MemPublish(w) ==
    /\ pc[w] = "publish"
    /\ Kind(w) = "mem"
    /\ it[w] <= Len(activeProcesses[w])
    /\ processes' = MemUpdate(processes, activeProcesses[w][it[w]])
    /\ it' = [it EXCEPT ![w] = it[w] + 1]
    /\ UNCHANGED <<extVars, globalVars, processMutex, cmdVars, pc, cpuLocals,
                   activeProcesses, processesVector, wokeInactive, screen, vanished, osVars>>

monitorMemory(w) ==
    /\ Kind(w) = "mem"
    /\ \/ LoopCondition(w) \/ PauseLoop(w) \/ BreakCheck(w)
       \/ IntervalSleep(w) \/ MemSample(w) \/ Lock(w) \/ MemPublish(w)
       \/ Unlock(w)


(***************************************************************************)
(* monitorProcesses, lines 183-225.                                        *)
(***************************************************************************)
\* std::stod on the strings the filter command stores
stod(str) ==
    CASE str = "0" -> FracOfInt(0)
      [] str = "1" -> FracOfInt(1)
      [] str = "50" -> FracOfInt(50)
      [] str = "100" -> FracOfInt(100)
      [] str = "2.5" -> Frac(5, 2)
      [] str = "0.123457" -> Frac(123457, 1000000)

\* a filter that keeps the records equal to the threshold
PassesFilterNonStrict(process) ==
    /\ ~(filterCriterion[1] = "user" /\ process.user # filterCriterion[2])
    /\ ~(filterCriterion[1] = "cpu"
            /\ FracLess(process.cpuUsage, stod(filterCriterion[2])))
    /\ ~(filterCriterion[1] = "memory"
            /\ FracLess(FracOfInt(process.memoryUsage), stod(filterCriterion[2])))

\* lines 193-204: the record passes the filter
PassesFilter(process) ==
    /\ ~(filterCriterion[1] = "user" /\ process.user # filterCriterion[2])
    /\ ~(filterCriterion[1] = "cpu"
            /\ FracLeq(process.cpuUsage, stod(filterCriterion[2])))
    /\ ~(filterCriterion[1] = "memory"
            /\ FracLeq(FracOfInt(process.memoryUsage), stod(filterCriterion[2])))

\* lines 185-208: the copy of the matching records, made under the mutex.
\* The map is unordered: the order of the copy is fixed by the sort below.
\* the texts std::stod converts; on any other it throws
\* std::invalid_argument
NumericTexts == {"0", "1", "50", "100", "2.5", "0.123457"}

\* lines 196 and 200: the first record makes the loop call std::stod on a
\* value that is no number
StodThrows ==
    /\ filterCriterion[1] \in {"cpu", "memory"}
    /\ filterCriterion[2] \notin NumericTexts
    /\ DOMAIN processes # {}

\* the exception leaves monitorProcesses, a thread function that catches
\* nothing: std::terminate ends the program
DispThrow(w) ==
    /\ pc[w] = "publish"
    /\ Kind(w) = "disp"
    /\ StodThrows
    /\ running' = FALSE
    /\ Goto(w, "done")
    /\ UNCHANGED <<extVars, globalVars, processes, processMutex, starts, report,
                   cpuLocals, loopLocals, processesVector, wokeInactive, screen,
                   vanished, osVars>>

DispCollect(w) ==
    /\ pc[w] = "publish"
    /\ Kind(w) = "disp"
    /\ ~StodThrows
    /\ processesVector' = [processesVector EXCEPT
            ![w] = {processes[p] : p \in {q \in DOMAIN processes :
                                            PassesFilter(processes[q])}}]
    /\ processMutex' = 0
    /\ Goto(w, "render")
    /\ UNCHANGED <<extVars, globalVars, processes, cmdVars, cpuLocals, loopLocals,
                   wokeInactive, screen, vanished, osVars>>

\* the comparators of lines 213-219
SortedBy(criterion, rows) ==
    \A i \in 1..Len(rows) : \A j \in 1..Len(rows) :
        i < j =>
            CASE criterion = "cpu" ->
                    ~FracLess(rows[i].cpuUsage, rows[j].cpuUsage)
              [] criterion = "memory" ->
                    rows[i].memoryUsage >= rows[j].memoryUsage
              [] OTHER -> TRUE

\* every order std::sort may leave the copied records in
Orderings(rowSet, criterion) ==
    {rows \in [1..Cardinality(rowSet) -> rowSet] :
        /\ {rows[i] : i \in 1..Len(rows)} = rowSet
        /\ SortedBy(criterion, rows)}

\* lines 210-224: sort the copy, clear the screen, printProcesses
DispRender(w) ==
    /\ pc[w] = "render"
    /\ Kind(w) = "disp"
    /\ \E rows \in Orderings(processesVector[w], sortingCriterion) :
            screen' = rows
    /\ processesVector' = [processesVector EXCEPT ![w] = {}]
    /\ Goto(w, "loop")
    /\ wokeInactive' = wokeInactive \ {w}
    /\ UNCHANGED <<extVars, globalVars, processes, processMutex, cmdVars, cpuLocals,
                   loopLocals, vanished, osVars>>

monitorProcesses(w) ==
    /\ Kind(w) = "disp"
    /\ \/ LoopCondition(w) \/ PauseLoop(w) \/ BreakCheck(w)
       \/ IntervalSleep(w) \/ Lock(w) \/ DispCollect(w) \/ DispRender(w)

(***************************************************************************)
(* command_handler.cpp: the commands of startCommandLoop and the SIGINT    *)
(* handler.  Each runs on the command thread.                              *)
(***************************************************************************)
\* std::thread monitoringThread is default-constructed and never assigned
\* (the three threads are locals that are detached), so joinable() is false
\* and no join() is ever made.
monitoringThreadJoinable == FALSE

\* the argument of start_monitor: absent, valid, or anything else
SortArgs == {"", "cpu", "memory", "disk"}

\* lines 225-232: three threads are created and detached
Entry(w) == IF Kind(w) = "cpu" THEN "start" ELSE "loop"

Spawn(k) ==
    pc' = [w \in Workers |->
              IF w \in {3 * k - 2, 3 * k - 1, 3 * k} THEN Entry(w) ELSE pc[w]]

\* a start_monitor that reads its argument before it tests the flag
AlreadyActiveParsing(arg) ==
    /\ report' = "Monitoring is already active"
    /\ sortingCriterion' = IF arg \in {"cpu", "memory"} THEN arg ELSE "cpu"
    /\ UNCHANGED <<monitoringActive, monitoringPaused, filterCriterion,
                   running, starts, pc>>

\* lines 236-239: monitoring is already active, which is all that is said
AlreadyActive(arg) ==
    /\ report' = "Monitoring is already active"
    /\ UNCHANGED <<globalVars, running, starts, pc>>

\* start_monitor [cpu|memory], lines 205-241
StartMonitor(arg) ==
    /\ running
    /\ IF ~monitoringActive
       THEN /\ starts < MaxStarts
            /\ sortingCriterion' = IF arg \in {"cpu", "memory"} THEN arg ELSE "cpu"
            /\ monitoringActive' = TRUE
            /\ Spawn(starts + 1)
            /\ starts' = starts + 1
            /\ report' = "Monitoring started"
            /\ UNCHANGED <<extVars, monitoringPaused, filterCriterion, running>>
       ELSE AlreadyActive(arg)
    /\ UNCHANGED <<extVars, processes, processMutex, cpuLocals, loopLocals,
                   processesVector, wokeInactive, screen, vanished, osVars>>

\* the body shared by stop_monitor (552-558) and handleSigint (71-77):
\* store false, notify_all on a condition variable nothing waits on, join
\* only if joinable
StopTransition ==
    /\ monitoringActive' = FALSE
    /\ monitoringThreadJoinable => \A w \in Workers : pc[w] \in {"idle", "done"}
    /\ UNCHANGED <<extVars, monitoringPaused, sortingCriterion, filterCriterion,
                   running, starts>>

\* stop_monitor, lines 546-568
StopMonitor ==
    /\ running
    /\ IF monitoringActive
       THEN /\ StopTransition
            /\ report' = "Monitoring stopped"
       ELSE UNCHANGED <<extVars, globalVars, cmdVars>>
    /\ UNCHANGED <<extVars, processes, processMutex, pc, cpuLocals, loopLocals,
                   processesVector, wokeInactive, screen, vanished, osVars>>

\* what handleSigint writes to std::cout: lines 70, 78 and 82 when
\* monitoring was active, line 82 alone when it was not
SigintStopped == "Stopping monitoring... Monitoring stopped. You can type other commands. ProcessManager> "
SigintPrompt == "ProcessManager> "

\* a handler that takes the chance to clear the pause flag as well
handleSigintResuming ==
    /\ running
    /\ IF monitoringActive
       THEN /\ monitoringActive' = FALSE
            /\ monitoringPaused' = FALSE
            /\ report' = SigintStopped
            /\ UNCHANGED <<extVars, sortingCriterion, filterCriterion,
                           running, starts>>
       ELSE /\ report' = SigintPrompt
            /\ UNCHANGED <<extVars, globalVars, running, starts>>
    /\ UNCHANGED <<extVars, processes, processMutex, pc, cpuLocals, loopLocals,
                   processesVector, wokeInactive, screen, vanished, osVars>>

\* handleSigint, lines 66-84
handleSigint ==
    /\ running
    /\ IF monitoringActive
       THEN /\ StopTransition
            /\ report' = SigintStopped
       ELSE /\ report' = SigintPrompt
            /\ UNCHANGED <<extVars, globalVars, running, starts>>
    /\ UNCHANGED <<extVars, processes, processMutex, pc, cpuLocals, loopLocals,
                   processesVector, wokeInactive, screen, vanished, osVars>>

\* pause_monitor, lines 244-264
PauseMonitor ==
    /\ running
    /\ IF monitoringActive /\ ~monitoringPaused
       THEN /\ monitoringPaused' = TRUE
            /\ UNCHANGED <<extVars, monitoringActive, sortingCriterion, filterCriterion,
                           cmdVars>>
       ELSE UNCHANGED <<extVars, globalVars, cmdVars>>
    /\ UNCHANGED <<extVars, processes, processMutex, pc, cpuLocals, loopLocals,
                   processesVector, wokeInactive, screen, vanished, osVars>>

\* resume_monitor, lines 267-287
ResumeMonitor ==
    /\ running
    /\ IF monitoringPaused
       THEN /\ monitoringPaused' = FALSE
            /\ UNCHANGED <<extVars, monitoringActive, sortingCriterion, filterCriterion,
                           cmdVars>>
       ELSE UNCHANGED <<extVars, globalVars, cmdVars>>
    /\ UNCHANGED <<extVars, processes, processMutex, pc, cpuLocals, loopLocals,
                   processesVector, wokeInactive, screen, vanished, osVars>>

\* main.cpp:34: the logger is started before the command loop is entered
StartedByMain == [active |-> TRUE, file |-> "process_manager.log"]

\* Logger::start, logger.cpp 38-55: refused when the logger is active (the
\* file is taken to be one that can be opened)
LoggerStart(filename) ==
    IF logger.active THEN logger ELSE [active |-> TRUE, file |-> filename]

\* the value Logger::start returns
LoggerStartReturns == ~logger.active

\* Logger::stop, logger.cpp 58-75
LoggerStop == [active |-> FALSE, file |-> ""]

\* the argument of log: none, or the name of a file
LogArgs == {"", "custom_log.txt"}

\* line 515: the file used when none is named
DefaultLogFile == "process_log.txt"

\* log [file], lines 513-543
LogCommand(file) ==
    /\ running
    /\ LET logFile == IF file = "" THEN DefaultLogFile ELSE file
       IN  /\ logger' = LoggerStart(logFile)
           /\ report' = IF LoggerStartReturns
                         THEN "Logging started"
                         ELSE "Failed to start logger on file"
    /\ lpc' = IF LoggerStartReturns THEN "lock" ELSE lpc
    /\ UNCHANGED <<globalVars, processes, processMutex, running, starts,
                   workerVars, osVars, protected, updateFrequency, ctl, kills,
                   test, written, retained, usageCall, sampledAt, m_queue,
                   m_logFile, m_queueMutex, logMsg, call>>

\* line 657
UserExited == "User exited the application."

\* exit and quit, lines 645-661, with the logging thread left to itself
\* until Logger::stop has joined it
ExitCommand ==
    /\ running
    /\ monitoringActive' = FALSE
    /\ running' = FALSE
    /\ logger' = LoggerStop
    /\ m_logFile' = IF logger.active
                      THEN m_logFile \o m_queue \o <<UserExited>>
                      ELSE m_logFile
    /\ m_queue' = IF logger.active THEN <<>> ELSE m_queue
    /\ lpc' = IF logger.active THEN "exited" ELSE lpc
    /\ UNCHANGED <<monitoringPaused, sortingCriterion, filterCriterion, starts,
                   report, m_queueMutex, logMsg, call>>
    /\ UNCHANGED <<protected, updateFrequency, ctl, kills, test, written,
                   retained, usageCall, sampledAt, processes, processMutex, pc,
                   cpuLocals, loopLocals,
                   processesVector, wokeInactive, screen, vanished, osVars>>

\* a sort_by that stores whatever word it is given
SortByAnyWord(arg) ==
    /\ running
    /\ sortingCriterion' = IF arg # "" THEN arg ELSE sortingCriterion
    /\ UNCHANGED <<monitoringActive, monitoringPaused, filterCriterion,
                   processes, processMutex, cmdVars, workerVars, osVars, extVars>>

\* sort_by <cpu|memory>, lines 401-423
SortBy(arg) ==
    /\ running
    /\ sortingCriterion' = IF arg \in {"cpu", "memory"} THEN arg
                           ELSE sortingCriterion
    /\ UNCHANGED <<monitoringActive, monitoringPaused, filterCriterion,
                   processes, processMutex, cmdVars, workerVars, osVars, extVars>>

\* iss >> double succeeds: the token is there and is a number
ParsesAsDouble(token) ==
    token \in {"0", "1", "50", "50.0", "2.5", "0.1234567"}

\* the double that iss >> double stores
ParseDouble(token) ==
    CASE token = "0" -> FracOfInt(0)
      [] token = "1" -> FracOfInt(1)
      [] token = "50" -> FracOfInt(50)
      [] token = "50.0" -> FracOfInt(50)
      [] token = "2.5" -> Frac(5, 2)
      [] token = "0.1234567" -> Frac(1234567, 10000000)

\* lines 452-461 and 478-487: a whole number is printed as an int, any
\* other through operator<<(double), which writes six significant digits
FormatThreshold(value) ==
    CASE value = FracOfInt(0) -> "0"
      [] value = FracOfInt(1) -> "1"
      [] value = FracOfInt(50) -> "50"
      [] value = Frac(5, 2) -> "2.5"
      [] value = Frac(1234567, 10000000) -> "0.123457"

\* filter <user|cpu|memory> <value>, lines 426-510
FilterCommand(type, token) ==
    /\ running
    /\ filterCriterion' =
         CASE type = "user" /\ token # "" -> <<"user", token>>
           [] type \in {"cpu", "memory"} /\ ParsesAsDouble(token) ->
                  <<type, FormatThreshold(ParseDouble(token))>>
           [] OTHER -> filterCriterion
    /\ UNCHANGED <<monitoringActive, monitoringPaused, sortingCriterion,
                   processes, processMutex, cmdVars, workerVars, osVars, extVars>>

\* the argument of set_update_freq: none, a word, whole numbers, a number
\* with a fraction, a number no int can hold
FreqArgs == {"", "abc", "-5", "0", "1", "10", "2.5", "99999999999"}

\* iss >> newFreq succeeds: the token begins with a whole number that an int
\* can hold (the extraction stops at the first character that is not a digit)
ParsesAsInt(token) == token \in {"-5", "0", "1", "10", "2.5"}

\* the int that iss >> newFreq stores
ParseInt(token) ==
    CASE token = "-5" -> -5
      [] token = "0" -> 0
      [] token = "1" -> 1
      [] token = "10" -> 10
      [] token = "2.5" -> 2

\* a frequency of zero seconds let through
ValidFrequencyOrZero(newFreq) == newFreq >= 0

\* line 626: if (newFreq <= 0) is the invalid case
ValidFrequency(newFreq) == newFreq > 0

\* set_update_freq <seconds>, lines 621-642
SetUpdateFreq(token) ==
    /\ running
    /\ updateFrequency' =
           IF ParsesAsInt(token) /\ ValidFrequency(ParseInt(token))
           THEN ParseInt(token)
           ELSE updateFrequency
    /\ UNCHANGED <<globalVars, processes, processMutex, cmdVars, workerVars,
                   osVars, protected, ctl, kills, test, written, sideVars>>

(***************************************************************************)
(* The operating system: processes come, run, change and go.               *)
(***************************************************************************)
OsSpawn(p, prof) ==
    /\ ~Alive(p)
    /\ procfs' = [procfs EXCEPT ![p] = [prof |-> prof, ticks |-> 0]]
    /\ UNCHANGED <<extVars, globalVars, processes, processMutex, cmdVars, workerVars,
                   statTicks, statReadable>>

OsExit(p) ==
    /\ Alive(p)
    /\ procfs' = [procfs EXCEPT ![p] = NoProc]
    /\ UNCHANGED <<extVars, globalVars, processes, processMutex, cmdVars, workerVars,
                   statTicks, statReadable>>

\* the owner, command name and resident memory of a running process change
OsChange(p) ==
    /\ Alive(p)
    /\ procfs' = [procfs EXCEPT
            ![p].prof = IF procfs[p].prof = "A" THEN "B" ELSE "A"]
    /\ UNCHANGED <<extVars, globalVars, processes, processMutex, cmdVars, workerVars,
                   statTicks, statReadable>>

\* one tick of CPU time passes, spent idle or in one of the processes
OsTick ==
    /\ statTicks < MaxTicks
    /\ statTicks' = statTicks + 1
    /\ \/ UNCHANGED procfs
       \/ \E p \in Pids :
            /\ Alive(p)
            /\ procfs' = [procfs EXCEPT ![p].ticks = procfs[p].ticks + 1]
    /\ UNCHANGED <<extVars, globalVars, processes, processMutex, cmdVars, workerVars,
                   statReadable>>

\* /proc/stat stops or starts being readable (descriptors run out, the
\* filesystem is unmounted or mounted)
OsStat ==
    /\ statReadable' = ~statReadable
    /\ UNCHANGED <<extVars, globalVars, processes, processMutex, cmdVars, workerVars,
                   procfs, statTicks>>

(***************************************************************************)
(* process_control.cpp and the commands kill, kill_all and list_processes  *)
(* of command_handler.cpp.  The program is itself a process: getpid() is   *)
(* SelfPid, and /proc lists it like any other.                             *)
(***************************************************************************)
SelfPid == 3
\* a pid that no process has
NoSuchPid == 4
CtlPids == {1, 2, SelfPid}
AllPids == CtlPids \cup {NoSuchPid}

\* the holder of processMutex when it is the command thread
CommandThread == -1

NoOperation ==
    [op |-> "none", pid |-> 0, threshold |-> Zero, user |-> "",
     phase |-> "idle", visited |-> {},
     anyKilled |-> FALSE, successCount |-> 0, failureCount |-> 0,
     ret |-> "none"]

NoKills == [p \in AllPids |-> 0]

\* the bool an operation returned, beside "none" for no return yet
Returned(b) == IF b THEN "true" ELSE "false"

\* kill(pid, SIGKILL) for a pid other than the caller's own: 0 ("OK"), or -1
\* with errno ESRCH or EPERM
KillOutcome(pid) ==
    IF ~Alive(pid) THEN "ESRCH"
    ELSE IF pid \in protected THEN "EPERM"
    ELSE "OK"

\* The command thread calls kill(pid, SIGKILL).  A signalled process is gone;
\* SIGKILL to the program's own pid ends the program with all its threads
\* before kill() returns.
KillCall(base, pid) ==
    /\ kills' = [base EXCEPT ![pid] = @ + 1]
    /\ procfs' = IF KillOutcome(pid) = "OK"
                 THEN [procfs EXCEPT ![pid] = NoProc]
                 ELSE procfs
    /\ IF pid = SelfPid
       THEN /\ running' = FALSE
            /\ pc' = [w \in Workers |-> IF pc[w] = "idle" THEN "idle" ELSE "done"]
       ELSE UNCHANGED <<running, pc>>

\* a validation that forgets the program's own pid
KillProcessRejectsInvalidOnly(pid) == pid <= 0

\* killProcess, lines 23-34: the pids it refuses
KillProcessRejects(pid) == pid <= 0 \/ pid = SelfPid

\* what the operator may type after "kill"
KillArgs == {-1, 0, 1, SelfPid, NoSuchPid}

\* kill <pid> (command_handler.cpp 571-605) with killProcess (20-59)
KillProcess(pid, confirmation) ==
    /\ running
    /\ ctl.phase = "idle"
    /\ IF confirmation \notin {"y", "Y"}
       THEN UNCHANGED <<ctl, kills, procfs, running, pc>>
       ELSE IF KillProcessRejects(pid)
       THEN /\ ctl' = [NoOperation EXCEPT !.op = "kill", !.pid = pid, !.ret = Returned(FALSE)]
            /\ kills' = NoKills
            /\ UNCHANGED <<procfs, running, pc>>
       ELSE /\ KillCall(NoKills, pid)
            /\ ctl' = [NoOperation EXCEPT
                  !.op = "kill", !.pid = pid,
                  !.phase = IF pid = SelfPid THEN "killed" ELSE "idle",
                  !.ret = IF pid = SelfPid THEN "none"
                          ELSE Returned(KillOutcome(pid) = "OK")]
    /\ UNCHANGED <<globalVars, processes, processMutex, starts, report,
                   previousTotalCpuTime, totalCpuTimeDelta, activeProcesses, it,
                   processesVector, wokeInactive, screen, vanished, statTicks,
                   statReadable, protected, sideVars, updateFrequency, test, written>>

\* the predicates of the two bulk operations (lines 72 and 126)
KillMatches(op, arg, process) ==
    CASE op = "cpu" -> FracLess(arg, process.cpuUsage)
      [] op = "user" -> process.user = arg

\* kill_all cpu <threshold> and kill_all user <name> (command_handler.cpp
\* 305-398) up to the lock_guard of killProcessesByCpu (69) or
\* killProcessesByUser (123)
KillAllBegin(op, arg, confirmation) ==
    /\ running
    /\ ctl.phase = "idle"
    /\ IF confirmation \in {"y", "Y"}
       THEN /\ processMutex = 0
            /\ processMutex' = CommandThread
            /\ ctl' = [NoOperation EXCEPT
                  !.op = op, !.phase = "batch",
                  !.threshold = IF op = "cpu" THEN arg ELSE Zero,
                  !.user = IF op = "user" THEN arg ELSE ""]
            /\ kills' = NoKills
       ELSE UNCHANGED <<processMutex, ctl, kills>>
    /\ UNCHANGED <<globalVars, processes, cmdVars, workerVars, osVars,
                   protected, sideVars, updateFrequency, test, written>>

\* a bulk operation that counts every attempt as a kill
AnyKilledAfterAttempt(outcome, anyKilled) == TRUE

\* lines 75-97: anyKilled after an attempt
AnyKilledAfter(outcome, anyKilled) == anyKilled \/ outcome = "OK"

\* the argument of the bulk operation in progress: double threshold or
\* const std::string& username
BulkArg == IF ctl.op = "cpu" THEN ctl.threshold ELSE ctl.user

\* one iteration of  for (const auto& [pid, process] : processes), lines
\* 70-99 and 124-153.  The map is unordered: any record not yet visited may
\* come next.
KillAllStep ==
    /\ ctl.phase = "batch"
    /\ \E pid \in (DOMAIN processes) \ ctl.visited :
         IF KillMatches(ctl.op, BulkArg, processes[pid])
         THEN /\ KillCall(kills, pid)
              /\ ctl' = IF pid = SelfPid
                        THEN [ctl EXCEPT !.phase = "killed",
                                         !.visited = @ \cup {pid}]
                        ELSE [ctl EXCEPT
                          !.visited = @ \cup {pid},
                          !.anyKilled = AnyKilledAfter(KillOutcome(pid), @),
                          !.successCount = IF KillOutcome(pid) = "OK" THEN @ + 1 ELSE @,
                          !.failureCount = IF KillOutcome(pid) = "OK" THEN @ ELSE @ + 1]
         ELSE /\ ctl' = [ctl EXCEPT !.visited = @ \cup {pid}]
              /\ UNCHANGED <<kills, procfs, running, pc>>
    /\ UNCHANGED <<globalVars, processes, processMutex, starts, report,
                   previousTotalCpuTime, totalCpuTimeDelta, activeProcesses, it,
                   processesVector, wokeInactive, screen, vanished, statTicks,
                   statReadable, protected, sideVars, updateFrequency, test, written>>

\* lines 100-112: the lock_guard releases the mutex, the summary is printed
\* and anyKilled is returned
KillAllEnd ==
    /\ ctl.phase = "batch"
    /\ ctl.visited = DOMAIN processes
    /\ processMutex' = 0
    /\ ctl' = [ctl EXCEPT !.phase = "idle", !.ret = Returned(ctl.anyKilled)]
    /\ UNCHANGED <<globalVars, processes, cmdVars, workerVars, osVars,
                   protected, sideVars, updateFrequency, kills, test, written>>

\* a listing that moves the records out of the map
ListProcessesMoving ==
    /\ running
    /\ ctl.phase = "idle"
    /\ processMutex = 0
    /\ \E rows \in Orderings({processes[p] : p \in DOMAIN processes}, "none") :
            screen' = rows
    /\ processes' = <<>>
    /\ UNCHANGED <<globalVars, processMutex, cmdVars, pc, cpuLocals,
                   loopLocals, processesVector, wokeInactive, vanished, osVars,
                   extVars>>

\* list_processes, command_handler.cpp 290-302: copy the records under the
\* mutex, then printProcesses
ListProcesses ==
    /\ running
    /\ ctl.phase = "idle"
    /\ processMutex = 0
    /\ \E rows \in Orderings({processes[p] : p \in DOMAIN processes}, "none") :
            screen' = rows
    /\ UNCHANGED <<globalVars, processes, processMutex, cmdVars, pc, cpuLocals,
                   loopLocals, processesVector, wokeInactive, vanished, osVars,
                   extVars>>

(***************************************************************************)
(* test_concurrent_updates.cpp, CPUAndMemorySynchronization (lines 86-146): *)
(* numThreads threads each store numProcessesPerThread dummy records under *)
(* processMutex.  The test runs 5 threads of 50 records.                   *)
(***************************************************************************)
numThreads == 2
numProcessesPerThread == 2

TestThreads == 0..(numThreads - 1)

\* int pid = t * numProcessesPerThread + i
TestPid(t, i) == t * numProcessesPerThread + i
TestPids == {TestPid(t, i) : t \in TestThreads, i \in 0..(numProcessesPerThread - 1)}

\* the holder of processMutex when it is test thread t
TestOwner(t) == 100 + t

\* Process dummyProcess; leaves prevTotalTime without a value: the record
\* holds whatever the stack held
Indeterminate == {0, 1}

\* lines 100-104; cpuUsage and memoryUsage are doubles (pid % 100, pid * 1.5)
dummyProcess(pid, junk) ==
    Process(pid, <<"user", pid % 5>>, FracOfInt(pid % 100), Frac(pid * 3, 2),
            junk, "")

TestStep(t, phase) == test' = [test EXCEPT ![t].phase = phase]

\* for (int i = 0; i < numProcessesPerThread; ++i), and lines 97-104
TestLoop(t) ==
    /\ test[t].phase = "loop"
    /\ IF test[t].i < numProcessesPerThread
       THEN \E junk \in Indeterminate :
                test' = [test EXCEPT
                    ![t].phase = "lock",
                    ![t].dummy = dummyProcess(TestPid(t, test[t].i), junk)]
       ELSE TestStep(t, "joined")
    /\ UNCHANGED <<globalVars, processes, processMutex, cmdVars, workerVars,
                   osVars, protected, sideVars, updateFrequency, ctl, kills, written>>

\* line 108: std::lock_guard<std::mutex> lock(processMutex)
TestLock(t) ==
    /\ test[t].phase = "lock"
    /\ processMutex = 0
    /\ processMutex' = TestOwner(t)
    /\ TestStep(t, "store")
    /\ UNCHANGED <<globalVars, processes, cmdVars, workerVars,
                   osVars, protected, sideVars, updateFrequency, ctl, kills, written>>

\* line 109: processes[pid] = dummyProcess
TestStore(t) ==
    /\ test[t].phase = "store"
    /\ processes' = Put(processes, test[t].dummy.pid, test[t].dummy)
    /\ written' = [written EXCEPT ![test[t].dummy.pid] = test[t].dummy]
    /\ TestStep(t, "unlock")
    /\ UNCHANGED <<globalVars, processMutex, cmdVars, workerVars,
                   osVars, protected, sideVars, updateFrequency, ctl, kills>>

\* lines 110-113: the lock_guard releases the mutex, the thread sleeps 1 ms
\* and goes to its next record
TestUnlock(t) ==
    /\ test[t].phase = "unlock"
    /\ processMutex' = 0
    /\ test' = [test EXCEPT ![t].phase = "loop", ![t].i = test[t].i + 1]
    /\ UNCHANGED <<globalVars, processes, cmdVars, workerVars,
                   osVars, protected, sideVars, updateFrequency, ctl, kills, written>>

TestThread(t) == TestLoop(t) \/ TestLock(t) \/ TestStore(t) \/ TestUnlock(t)

(***************************************************************************)
(* The Logger (logger.cpp): the threads that call log() and stop(), and    *)
(* the thread of processQueue.                                             *)
(***************************************************************************)
\* the thread main() started with Logger::start
LoggingThread == -2

\* the threads whose calls of the Logger are followed: the command thread,
\* which is the thread of main(), and the CPU thread of the first session
LoggingWorker == 1
LogCallers == {CommandThread, LoggingWorker}

\* main.cpp:38, resource_monitor.cpp:81 and 130, main.cpp:48
ProcessManagerStarted == "Process Manager started."
DeltaIsZero == "Total CPU time delta is zero, cannot calculate CPU usage."
CpuThreadStopped == "CPU monitoring thread stopped."
ShuttingDown == "Shutting down Process Manager."

\* what a thread still has to do, one after the other
LogOp(message) == [op |-> "log", msg |-> message]
StopOp == [op |-> "stop", msg |-> ""]
LockOp == [op |-> "lock", msg |-> ""]
UnlockOp == [op |-> "unlock", msg |-> ""]
AwaitStopOp == [op |-> "await", msg |-> ""]

NoCalls == [pos |-> "idle", todo |-> <<>>, path |-> "none"]

\* main.cpp:34-38: the logger is started and the first message is queued
LoggerAtCommandLoop ==
    /\ m_queue = <<ProcessManagerStarted>>
    /\ m_logFile = <<>>
    /\ m_queueMutex = 0
    /\ lpc = "lock"
    /\ logMsg = ""
    /\ call = [t \in LogCallers |-> NoCalls]

notLoggerVars ==
    <<globalVars, processes, processMutex, cmdVars, workerVars, osVars,
      protected, updateFrequency, ctl, kills, test, written, retained,
      usageCall, sampledAt>>

NextOp(t) == Head(call[t].todo)
Has(t, op) == call[t].pos = "idle" /\ call[t].todo # <<>> /\ NextOp(t).op = op
Return(t) == call' = [call EXCEPT ![t].pos = "idle", ![t].todo = Tail(@)]
MoveTo(t, pos) == call' = [call EXCEPT ![t].pos = pos]

\* m_cv.notify_all(): a thread blocked in m_cv.wait becomes ready to take
\* the mutex again; a thread that is not blocked is not affected
NotifyAll == lpc' = IF lpc = "waiting" THEN "woken" ELSE lpc

\* Logger::log, lines 81-82: the test of m_active
LogCheck(t) ==
    /\ Has(t, "log")
    /\ IF logger.active THEN MoveTo(t, "push") ELSE Return(t)
    /\ UNCHANGED <<notLoggerVars, logger, m_queue, m_logFile, m_queueMutex, lpc,
                   logMsg>>

\* lines 83-86: the push under m_queueMutex
LogPush(t) ==
    /\ call[t].pos = "push"
    /\ m_queueMutex = 0
    /\ m_queue' = Append(m_queue, NextOp(t).msg)
    /\ MoveTo(t, "notify")
    /\ UNCHANGED <<notLoggerVars, logger, m_logFile, m_queueMutex, lpc, logMsg>>

\* line 87
LogNotify(t) ==
    /\ call[t].pos = "notify"
    /\ NotifyAll
    /\ Return(t)
    /\ UNCHANGED <<notLoggerVars, logger, m_queue, m_logFile, m_queueMutex,
                   logMsg>>

\* Logger::stop, lines 60-65: under m_mutex, which only start() and stop()
\* take and only the command thread calls
StopStore(t) ==
    /\ Has(t, "stop")
    /\ IF logger.active
       THEN /\ logger' = [logger EXCEPT !.active = FALSE]
            /\ MoveTo(t, "stopnotify")
       ELSE /\ Return(t)
            /\ UNCHANGED logger
    /\ UNCHANGED <<notLoggerVars, m_queue, m_logFile, m_queueMutex, lpc, logMsg>>

\* line 66
StopNotify(t) ==
    /\ call[t].pos = "stopnotify"
    /\ NotifyAll
    /\ MoveTo(t, "join")
    /\ UNCHANGED <<notLoggerVars, logger, m_queue, m_logFile, m_queueMutex,
                   logMsg>>

\* lines 67-70: join returns once processQueue has returned
StopJoin(t) ==
    /\ call[t].pos = "join"
    /\ lpc = "exited"
    /\ MoveTo(t, "close")
    /\ UNCHANGED <<notLoggerVars, logger, m_queue, m_logFile, m_queueMutex, lpc,
                   logMsg>>

\* lines 71-74
StopClose(t) ==
    /\ call[t].pos = "close"
    /\ logger' = [logger EXCEPT !.file = ""]
    /\ Return(t)
    /\ UNCHANGED <<notLoggerVars, m_queue, m_logFile, m_queueMutex, lpc, logMsg>>

\* resource_monitor.cpp:116: the lock_guard of the block that calls
\* calculateCpuUsage
LockRegistry(t) ==
    /\ Has(t, "lock")
    /\ processMutex = 0
    /\ processMutex' = t
    /\ Return(t)
    /\ UNCHANGED <<globalVars, processes, cmdVars, workerVars, osVars,
                   protected, updateFrequency, ctl, kills, test, written,
                   retained, usageCall, sampledAt, logger, m_queue, m_logFile,
                   m_queueMutex, lpc, logMsg>>

\* resource_monitor.cpp:127
UnlockRegistry(t) ==
    /\ Has(t, "unlock")
    /\ processMutex' = 0
    /\ Return(t)
    /\ UNCHANGED <<globalVars, processes, cmdVars, workerVars, osVars,
                   protected, updateFrequency, ctl, kills, test, written,
                   retained, usageCall, sampledAt, logger, m_queue, m_logFile,
                   m_queueMutex, lpc, logMsg>>

\* resource_monitor.cpp:93: the while loop is left when monitoringActive is
\* false
AwaitStop(t) ==
    /\ Has(t, "await")
    /\ ~monitoringActive
    /\ Return(t)
    /\ UNCHANGED <<notLoggerVars, logger, m_queue, m_logFile, m_queueMutex, lpc,
                   logMsg>>

LoggerCall(t) ==
    \/ LogCheck(t) \/ LogPush(t) \/ LogNotify(t)
    \/ StopStore(t) \/ StopNotify(t) \/ StopJoin(t) \/ StopClose(t)
    \/ LockRegistry(t) \/ UnlockRegistry(t) \/ AwaitStop(t)

\* processQueue, line 122: std::unique_lock<std::mutex> lock(m_queueMutex),
\* and the lock taken again inside m_cv.wait after a wakeup
PqLock ==
    /\ lpc \in {"lock", "woken"}
    /\ m_queueMutex = 0
    /\ m_queueMutex' = LoggingThread
    /\ lpc' = "predicate"
    /\ UNCHANGED <<notLoggerVars, logger, m_queue, m_logFile, logMsg, call>>

\* line 124: the predicate of m_cv.wait, evaluated with the mutex held
PqPredicate ==
    /\ lpc = "predicate"
    /\ lpc' = IF ~logger.active \/ m_queue # <<>> THEN "take" ELSE "block"
    /\ UNCHANGED <<notLoggerVars, logger, m_queue, m_logFile, m_queueMutex,
                   logMsg, call>>

\* line 124: the predicate was false, m_cv.wait releases the mutex and
\* blocks until it is notified
PqBlock ==
    /\ lpc = "block"
    /\ m_queueMutex' = 0
    /\ lpc' = "waiting"
    /\ UNCHANGED <<notLoggerVars, logger, m_queue, m_logFile, logMsg, call>>

\* a condition variable may wake a waiting thread that nobody notified
SpuriousWakeup ==
    /\ lpc = "waiting"
    /\ lpc' = "woken"
    /\ UNCHANGED <<notLoggerVars, logger, m_queue, m_logFile, m_queueMutex,
                   logMsg, call>>

\* lines 125-132: leave the loop, or take the front message, and unlock
PqTake ==
    /\ lpc = "take"
    /\ m_queueMutex' = 0
    /\ IF ~logger.active /\ m_queue = <<>>
       THEN /\ lpc' = "exited"
            /\ UNCHANGED <<m_queue, logMsg>>
       ELSE /\ logMsg' = Head(m_queue)
            /\ m_queue' = Tail(m_queue)
            /\ lpc' = "write"
    /\ UNCHANGED <<notLoggerVars, logger, m_logFile, call>>

\* lines 135-136
PqWrite ==
    /\ lpc = "write"
    /\ m_logFile' = Append(m_logFile, logMsg)
    /\ lpc' = "lock"
    /\ UNCHANGED <<notLoggerVars, logger, m_queue, m_queueMutex, logMsg, call>>

processQueue == PqLock \/ PqPredicate \/ PqBlock \/ PqTake \/ PqWrite

\* start_monitor, command_handler.cpp:205-241, as far as the Logger sees it:
\* the CPU thread will log under the registry lock, and log once more when
\* it has seen monitoringActive false
StartLogged ==
    /\ call[CommandThread] = NoCalls
    /\ starts = 0
    /\ starts' = 1
    /\ monitoringActive' = TRUE
    /\ call' = [call EXCEPT ![LoggingWorker].todo =
                  <<LockOp, LogOp(DeltaIsZero), UnlockOp, AwaitStopOp,
                    LogOp(CpuThreadStopped)>>]
    /\ UNCHANGED <<monitoringPaused, sortingCriterion, filterCriterion,
                   processes, processMutex, running, report, workerVars, osVars,
                   protected, updateFrequency, ctl, kills, test, written,
                   retained, usageCall, sampledAt, logger, m_queue, m_logFile,
                   m_queueMutex, lpc, logMsg>>

\* exit and quit, command_handler.cpp:645-661, followed by main.cpp:48-51
ExitTyped ==
    /\ call[CommandThread] = NoCalls
    /\ monitoringActive' = FALSE
    /\ call' = [call EXCEPT ![CommandThread].path = "exit",
                            ![CommandThread].todo =
                  <<LogOp(UserExited), StopOp, LogOp(ShuttingDown), StopOp>>]
    /\ UNCHANGED <<monitoringPaused, sortingCriterion, filterCriterion,
                   processes, processMutex, cmdVars, workerVars, osVars,
                   protected, updateFrequency, ctl, kills, test, written,
                   retained, usageCall, sampledAt, logger, m_queue, m_logFile,
                   m_queueMutex, lpc, logMsg>>

\* readline returns no line, command_handler.cpp:176-182, followed by
\* main.cpp:48-51
EndOfInput ==
    /\ call[CommandThread] = NoCalls
    /\ call' = [call EXCEPT ![CommandThread].path = "eof",
                            ![CommandThread].todo = <<LogOp(ShuttingDown), StopOp>>]
    /\ UNCHANGED <<notLoggerVars, logger, m_queue, m_logFile, m_queueMutex, lpc,
                   logMsg>>

\* main() has returned
MainReturned ==
    /\ call[CommandThread].path # "none"
    /\ call[CommandThread].pos = "idle"
    /\ call[CommandThread].todo = <<>>

(***************************************************************************)
(* The program after construction (globals.cpp), and its steps.            *)
(***************************************************************************)
\* the program as main() enters the command loop
ProgramStart ==
    /\ monitoringActive = FALSE
    /\ monitoringPaused = FALSE
    /\ sortingCriterion = "cpu"
    /\ filterCriterion = <<"none", "">>
    /\ processes = <<>>
    /\ processMutex = 0
    /\ running = TRUE
    /\ starts = 0
    /\ report = "none"
    /\ pc = [w \in Workers |-> "idle"]
    /\ previousTotalCpuTime = [w \in Workers |-> 0]
    /\ totalCpuTimeDelta = [w \in Workers |-> 0]
    /\ activeProcesses = [w \in Workers |-> <<>>]
    /\ it = [w \in Workers |-> 1]
    /\ processesVector = [w \in Workers |-> {}]
    /\ wokeInactive = {}
    /\ screen = <<>>
    /\ vanished = {}
    /\ protected = {}
    /\ updateFrequency = 5
    /\ ctl = NoOperation
    /\ kills = NoKills
    /\ test = [t \in TestThreads |-> [phase |-> "loop", i |-> 0, dummy |-> DefaultProcess]]
    /\ written = [pid \in TestPids |-> DefaultProcess]
    /\ logger = StartedByMain
    /\ LoggerAtCommandLoop
    /\ retained = [w \in Workers |-> NoBaseline]
    /\ sampledAt = [p \in AllPids |-> -1]

\* the program starts next to processes that have only just begun
Init ==
    /\ ProgramStart
    /\ usageCall = NoCall
    /\ procfs = [p \in Pids |-> [prof |-> "A", ticks |-> 0]]
    /\ statTicks = 1
    /\ statReadable = TRUE

WorkerStep(w) == monitorCpu(w) \/ monitorMemory(w) \/ monitorProcesses(w)

Command ==
    \/ \E arg \in SortArgs : StartMonitor(arg)
    \/ StopMonitor
    \/ handleSigint
    \/ PauseMonitor
    \/ ResumeMonitor
    \/ ExitCommand

Os ==
    \/ \E p \in Pids : \E prof \in Profiles : OsSpawn(p, prof)
    \/ \E p \in Pids : OsExit(p)
    \/ \E p \in Pids : OsChange(p)
    \/ OsTick
    \/ OsStat

\* the whole program in its environment
Next ==
    \/ \E w \in Workers : WorkerStep(w)
    \/ Command
    \/ Os

Spec == Init /\ [][Next]_vars

\* The threads of the k-th monitoring session
Session(k) == {3 * k - 2, 3 * k - 1, 3 * k}

\* The sampling of one monitoring session against a changing process table:
\* the CPU and the memory thread run, the operator starts and stops.
NextSampling ==
    \/ \E w \in Session(1) : monitorCpu(w) \/ monitorMemory(w)
    \/ starts = 0 /\ StartMonitor("")
    \/ StopMonitor
    \/ Os

SpecSampling == Init /\ [][NextSampling]_vars

\* calculateCpuUsage on its own: the deltas the threads can hand it, a
\* system delta that is zero or negative after a failed read included, and
\* the numbers of cores sysconf can return, its error value -1 included
UsageCalls ==
    [processTimeDelta : -1..MaxDelta, totalCpuTimeDelta : -1..MaxDelta,
     numCores : -1..MaxCores, cpuUsage : {Zero}, returned : {FALSE}]

InitUsage ==
    /\ ProgramStart
    /\ procfs = [p \in Pids |-> [prof |-> "A", ticks |-> 0]]
    /\ statTicks = 1
    /\ statReadable = TRUE
    /\ usageCall \in UsageCalls

NextUsage == CalculateCpuUsageCall

SpecUsage == InitUsage /\ [][NextUsage]_vars

\* One monitoring session that the operator pauses and resumes while the
\* processes run on: the CPU thread samples against a changing process table
\* in which a process has used CPU time before the program was started.
InitPause ==
    /\ ProgramStart
    /\ usageCall = NoCall
    /\ procfs = [p \in Pids |-> [prof |-> "A", ticks |-> 1]]
    /\ statTicks = 1
    /\ statReadable = TRUE

NextPause ==
    \/ \E w \in Session(1) : monitorCpu(w)
    \/ starts = 0 /\ StartMonitor("")
    \/ PauseMonitor
    \/ ResumeMonitor
    \/ Os

SpecPause == InitPause /\ [][NextPause]_vars

\* The life cycle of one monitoring session: its three threads run and the
\* operator gives every life-cycle command; the process table stays as the
\* program found it.
NextLifecycle ==
    \/ \E w \in Session(1) : WorkerStep(w)
    \/ starts = 0 /\ StartMonitor("")
    \/ StopMonitor
    \/ handleSigint
    \/ PauseMonitor
    \/ ResumeMonitor
    \/ ExitCommand

SpecLifecycle == Init /\ [][NextLifecycle]_vars

\* Every thread takes its next step sooner or later
Fairness == \A w \in Workers : WF_vars(WorkerStep(w))

SpecLive == Init /\ [][NextLifecycle]_vars /\ Fairness

\* Monitoring sessions one after the other: the operator starts and stops,
\* the CPU thread of every session runs.
NextRestart ==
    \/ \E w \in CpuWorkers : monitorCpu(w)
    \/ \E arg \in SortArgs : StartMonitor(arg)
    \/ StopMonitor

SpecRestart == Init /\ [][NextRestart]_vars

\* Monitoring sessions one after the other while CPU time passes: the
\* operator starts and stops, the CPU thread of every session runs, and the
\* processes stay the ones the program found.
NextRestartTicking ==
    \/ \E w \in CpuWorkers : monitorCpu(w)
    \/ StartMonitor("")
    \/ StopMonitor
    \/ OsTick

SpecRestartTicking == Init /\ [][NextRestartTicking]_vars

\* The operator gives every life-cycle command in any order, session after
\* session, and the CPU thread of every session runs.
NextCommands ==
    \/ Command
    \/ \E w \in CpuWorkers : monitorCpu(w)

SpecCommands == Init /\ [][NextCommands]_vars

\* The registries an earlier monitoring session can have left behind: a
\* record or none for each process, the program's own included, with the
\* owner and the CPU usage the threads found.
ControlRecords(p) ==
    IF p = SelfPid
    THEN {Process(p, "alice", FracOfInt(50), 1, 0, "process_manager")}
    ELSE {Process(p, u, FracOfInt(c), 1, 0, "sh") : u \in {"alice", "bob"}, c \in {10, 50}}

ControlRegistries ==
    UNION {{f \in [S -> UNION {ControlRecords(p) : p \in S}] :
                \A p \in S : f[p] \in ControlRecords(p)} : S \in SUBSET CtlPids}

\* The program after a monitoring session that was started and stopped and
\* whose threads have returned: the registry keeps what they stored.
AfterSession ==
    /\ monitoringActive = FALSE
    /\ monitoringPaused = FALSE
    /\ sortingCriterion = "cpu"
    /\ filterCriterion = <<"none", "">>
    /\ processMutex = 0
    /\ running = TRUE
    /\ starts = 1
    /\ report = "Monitoring stopped"
    /\ pc = [w \in Workers |-> IF w \in Session(1) THEN "done" ELSE "idle"]
    /\ previousTotalCpuTime = [w \in Workers |-> 0]
    /\ totalCpuTimeDelta = [w \in Workers |-> 0]
    /\ activeProcesses = [w \in Workers |-> <<>>]
    /\ it = [w \in Workers |-> 1]
    /\ processesVector = [w \in Workers |-> {}]
    /\ wokeInactive = {}
    /\ screen = <<>>
    /\ vanished = {}
    /\ procfs = [p \in AllPids |-> IF p \in CtlPids
                                   THEN [prof |-> "A", ticks |-> 0]
                                   ELSE NoProc]
    /\ statTicks = 1
    /\ statReadable = TRUE
    /\ updateFrequency = 5
    /\ ctl = NoOperation
    /\ kills = NoKills
    /\ test = [t \in TestThreads |-> [phase |-> "loop", i |-> 0, dummy |-> DefaultProcess]]
    /\ written = [pid \in TestPids |-> DefaultProcess]
    /\ logger = StartedByMain
    /\ LoggerAtCommandLoop
    /\ retained = [w \in Workers |-> NoBaseline]
    /\ sampledAt = [p \in AllPids |-> -1]
    /\ usageCall = NoCall

InitControl ==
    /\ AfterSession
    /\ processes \in ControlRegistries
    /\ protected \in {{}, {2}}

\* what the operator may type after "kill_all cpu" and "kill_all user"
KillAllArgs ==
    {<<"cpu", FracOfInt(40)>>, <<"cpu", FracOfInt(50)>>,
     <<"user", "alice">>, <<"user", "carol">>}

\* Process control on the registry of an earlier session: the operator
\* kills, lists and starts monitoring again, the display thread of the new
\* session runs, and processes exit on their own.
NextControl ==
    \/ \E pid \in KillArgs : \E c \in {"y", "n"} : KillProcess(pid, c)
    \/ \E a \in KillAllArgs : \E c \in {"y", "n"} : KillAllBegin(a[1], a[2], c)
    \/ KillAllStep
    \/ KillAllEnd
    \/ ListProcesses
    \/ starts = 1 /\ ctl.phase = "idle" /\ StartMonitor("")
    \/ \E w \in Session(2) : monitorProcesses(w)
    \/ \E p \in CtlPids \ {SelfPid} : OsExit(p)

SpecControl == InitControl /\ [][NextControl]_vars

\* The readers of the registry next to its writers: the three threads of one
\* session run over a process table of three processes, the program's own
\* included, while the operator lists the records and gives a bulk kill
\* that selects none of them.
InitSnapshot ==
    /\ ProgramStart
    /\ usageCall = NoCall
    /\ procfs = [p \in AllPids |-> IF p \in CtlPids
                                   THEN [prof |-> "A", ticks |-> 0]
                                   ELSE NoProc]
    /\ statTicks = 1
    /\ statReadable = TRUE

NextSnapshot ==
    \/ \E w \in Session(1) : WorkerStep(w)
    \/ starts = 0 /\ StartMonitor("")
    \/ ListProcesses
    \/ KillAllBegin("user", "carol", "y")
    \/ KillAllStep
    \/ KillAllEnd

SpecSnapshot == InitSnapshot /\ [][NextSnapshot]_vars

\* The records of two processes as an earlier session can have left them
DisplayRecords(p) ==
    {Process(p, u, FracOfInt(c), m, 0, "sh") :
        u \in {"alice", "bob"}, c \in {10, 50}, m \in {1, 2}}

DisplayRegistries ==
    UNION {{f \in [S -> UNION {DisplayRecords(p) : p \in S}] :
                \A p \in S : f[p] \in DisplayRecords(p)} : S \in SUBSET {1, 2}}

InitDisplay ==
    /\ AfterSession
    /\ processes \in DisplayRegistries
    /\ protected = {}

\* what the operator may type after "filter"
FilterArgs ==
    {<<"user", "alice">>, <<"user", "">>, <<"cpu", "50.0">>, <<"cpu", "abc">>,
     <<"memory", "1">>, <<"disk", "1">>}

NoDisplayThread == \A w \in DispWorkers : pc[w] \in {"idle", "done"}

\* The display of the registry of an earlier session: the operator chooses
\* filter and sort key while no display thread runs, starts and stops
\* monitoring, and the display thread of each session runs.
NextDisplay ==
    \/ NoDisplayThread /\ \E a \in FilterArgs : FilterCommand(a[1], a[2])
    \/ NoDisplayThread /\ \E arg \in SortArgs : SortBy(arg)
    \/ \E arg \in SortArgs : StartMonitor(arg)
    \/ StopMonitor
    \/ \E w \in DispWorkers : monitorProcesses(w)

SpecDisplay == InitDisplay /\ [][NextDisplay]_vars

\* the pair a filter command assigns, lines 436, 463 and 488
FilterPair(type, token) ==
    IF type = "user" THEN <<"user", token>>
    ELSE <<type, FormatThreshold(ParseDouble(token))>>

\* filterCriterion = {type, value}, the first half: std::pair's assignment
\* stores the member first and then the member second, and the command
\* thread holds no lock while it does
FilterAssignFirst(type, token) ==
    /\ running
    /\ ctl = NoOperation
    /\ \/ type = "user" /\ token # ""
       \/ type \in {"cpu", "memory"} /\ ParsesAsDouble(token)
    /\ filterCriterion' = <<FilterPair(type, token)[1], filterCriterion[2]>>
    /\ ctl' = [NoOperation EXCEPT !.op = "filter", !.phase = "assign",
                                  !.user = FilterPair(type, token)[2]]
    /\ UNCHANGED <<monitoringActive, monitoringPaused, sortingCriterion,
                   processes, processMutex, cmdVars, workerVars, osVars,
                   protected, updateFrequency, kills, test, written, sideVars>>

\* the second half of the assignment
FilterAssignSecond ==
    /\ ctl.op = "filter"
    /\ ctl.phase = "assign"
    /\ filterCriterion' = <<filterCriterion[1], ctl.user>>
    /\ ctl' = NoOperation
    /\ UNCHANGED <<monitoringActive, monitoringPaused, sortingCriterion,
                   processes, processMutex, cmdVars, workerVars, osVars,
                   protected, updateFrequency, kills, test, written, sideVars>>

\* the filters the operator gives while the display thread runs
RacingFilterArgs == {<<"user", "alice">>, <<"cpu", "50.0">>}

\* The filter command next to a running display thread: the two member
\* stores of the assignment are steps of the command thread, and the
\* display thread may take its locked block before, between or after them.
NextFilterRace ==
    \/ StartMonitor("")
    \/ \E a \in RacingFilterArgs : FilterAssignFirst(a[1], a[2])
    \/ FilterAssignSecond
    \/ \E w \in DispWorkers : monitorProcesses(w)
    \/ \E w \in DispWorkers : DispThrow(w)

SpecFilterRace == InitDisplay /\ [][NextFilterRace]_vars

\* The Logger from the command loop to the return of main(): the operator
\* may start monitoring, and leaves with exit or quit or by ending the
\* input; the command thread, the CPU thread and the logging thread take
\* their steps in any order.
NextLogger ==
    \/ StartLogged
    \/ ExitTyped
    \/ EndOfInput
    \/ \E t \in LogCallers : LoggerCall(t)
    \/ processQueue
    \/ SpuriousWakeup

SpecLogger == Init /\ [][NextLogger]_vars

\* Every thread that can take a step takes one in the end; a wakeup that
\* nobody sent may come or not.
SpecLoggerLive ==
    /\ SpecLogger
    /\ WF_vars(processQueue)
    /\ \A t \in LogCallers : WF_vars(LoggerCall(t))

\* what the operator may type after "filter" when changing the settings
SettingsFilterArgs ==
    {<<"", "">>, <<"user", "alice">>, <<"user", "">>, <<"cpu", "50">>,
     <<"cpu", "50.0">>, <<"cpu", "">>, <<"cpu", "abc">>, <<"memory", "2.5">>,
     <<"memory", "0.1234567">>, <<"memory", "">>, <<"disk", "1">>}

\* The operator changes the settings: the update interval, the sort key, the
\* filter and the log file, while monitoring is started and stopped.
NextSettings ==
    \/ \E token \in FreqArgs : SetUpdateFreq(token)
    \/ \E arg \in SortArgs : SortBy(arg)
    \/ \E a \in SettingsFilterArgs : FilterCommand(a[1], a[2])
    \/ \E file \in LogArgs : LogCommand(file)
    \/ \E arg \in SortArgs : StartMonitor(arg)
    \/ StopMonitor

SpecSettings == Init /\ [][NextSettings]_vars

\* The threads of the concurrency test against the empty registry
NextUpsert == \E t \in TestThreads : TestThread(t)

SpecUpsert == Init /\ [][NextUpsert]_vars

(***************************************************************************)
(* The properties.                                                         *)
(***************************************************************************)
Live(w) == pc[w] \notin {"idle", "done"}

\* the step is thread w's iteration of its publishing loop
PublishStep(w) == pc[w] = "publish" /\ it'[w] = it[w] + 1

\* the step ends a cycle of CPU thread w
CycleEnd(w) == pc[w] = "publish" /\ pc'[w] = "loop"

\* C1: when the CPU thread completes a sampling cycle, the registry holds no
\* record whose pid the enumeration of that cycle did not list (in
\* particular none at all when the enumeration was empty).
C1_ReconciledAtCycleEnd ==
    [][\A w \in CpuWorkers :
          CycleEnd(w) => (DOMAIN processes') \subseteq EnumPids(w)]_vars

\* C2: once "Monitoring stopped" has been reported, the threads of the
\* session have left their loops: none of them writes the registry or
\* renders the screen any more.
C2_NoWorkAfterStopReported ==
    [][report = "Monitoring stopped" =>
          /\ processes' = processes
          /\ screen' = screen]_vars

\* C3: at most three sampling threads are alive at any time, whatever the
\* sequence of start_monitor and stop_monitor.
C3_AtMostThreeWorkers ==
    Cardinality({w \in Workers : Live(w)}) <= 3

\* C4: once monitoringActive is false, every live sampling thread terminates
\* (unless monitoringActive is set again), wherever it is in its loop.
C4_WorkersTerminate ==
    ~monitoringActive ~> (monitoringActive \/ \A w \in Workers : ~Live(w))

\* The session was stopped while paused and all three threads have returned.
C4_Witness ==
    /\ ~monitoringActive
    /\ monitoringPaused
    /\ \A w \in Session(1) : pc[w] = "done"

\* C5: a thread whose interval sleep ended with monitoringActive false takes
\* no further sample: it writes nothing to the registry and renders nothing.
C5_NoSampleAfterInactiveWake ==
    [][\A w \in wokeInactive :
          /\ pc[w] = "publish" => processes' = processes
          /\ ~(pc[w] = "render" /\ pc'[w] = "loop")]_vars

\* C6: every cpuUsage stored in the registry is non-negative.
C6_CpuUsageNonNegative ==
    \A p \in DOMAIN processes : processes[p].cpuUsage.num >= 0

\* C7: the prevTotalTime of a record never decreases while the record stays
\* in the registry.
C7_PrevTotalTimeMonotonic ==
    [][\A p \in (DOMAIN processes) \cap (DOMAIN processes') :
          processes'[p].prevTotalTime >= processes[p].prevTotalTime]_vars

\* C8: when the per-process counter read fails because the process exited
\* after the enumeration, the CPU thread skips the pid: the registry is the
\* same after that iteration as before.
C8_FailedReadSkipsPid ==
    [][\A w \in CpuWorkers :
          (PublishStep(w) /\ ~Alive(activeProcesses[w][it[w]].pid))
              => processes' = processes]_vars

\* C9: when a pid that a completed CPU cycle did not find reappears, its
\* first CPU sample is computed against baseline 0, not against the
\* prevTotalTime of the process that had the pid before.
C9_ReusedPidFreshBaseline ==
    [][\A w \in CpuWorkers :
          (PublishStep(w) /\ activeProcesses[w][it[w]].pid \in vanished)
              => At(processes, activeProcesses[w][it[w]].pid).prevTotalTime = 0]_vars

\* C10: a publication of the CPU thread for a pid that has a record changes
\* only cpuUsage and prevTotalTime: memoryUsage, owner and command stay as
\* the memory thread last wrote them.
C10_CpuWritesOnlyCpuFields ==
    [][\A w \in CpuWorkers :
          (PublishStep(w) /\ activeProcesses[w][it[w]].pid \in DOMAIN processes)
              => LET p == activeProcesses[w][it[w]].pid
                 IN  /\ processes'[p].memoryUsage = processes[p].memoryUsage
                     /\ processes'[p].user = processes[p].user
                     /\ processes'[p].command = processes[p].command]_vars

\* C11: when all threads of the test have finished, the registry holds
\* exactly numThreads * numProcessesPerThread records, one per pid, each
\* equal to the record last stored for that pid.
C11_NoLostUpsert ==
    (\A t \in TestThreads : test[t].phase = "joined") =>
        /\ DOMAIN processes = TestPids
        /\ Cardinality(DOMAIN processes) = numThreads * numProcessesPerThread
        /\ \A pid \in TestPids :
              processes[pid] = written[pid] /\ processes[pid].pid = pid

\* All threads have been joined and the registry is complete.
C11_Witness ==
    /\ \A t \in TestThreads : test[t].phase = "joined"
    /\ Cardinality(DOMAIN processes) = numThreads * numProcessesPerThread

\* a bulk operation has run to its end: it returned, or the program died in it
BulkOver == ctl.op \in {"cpu", "user"} /\ ctl.phase # "batch"

\* the records the bulk operation's predicate selects
Matching == {p \in DOMAIN processes : KillMatches(ctl.op, BulkArg, processes[p])}

\* C12: no process-control operation ever calls kill() with the program's
\* own pid, also when the program's own record is in the registry and
\* matches the predicate of a bulk operation.
C12_NeverSignalsSelf == kills[SelfPid] = 0

\* C13: killProcess(pid) with pid <= 0 or pid = getpid() returns false and
\* makes no kill() call: no process is signalled and the program runs on.
C13_KillProcessRejects ==
    [][(ctl' # ctl /\ ctl'.op = "kill" /\ (ctl'.pid <= 0 \/ ctl'.pid = SelfPid))
          => /\ ctl'.ret = "false"
             /\ kills' = NoKills
             /\ procfs' = procfs
             /\ running' = running]_vars

\* killProcess was called with the program's own pid and returned false.
C13_Witness ==
    /\ ctl.op = "kill"
    /\ ctl.pid = SelfPid
    /\ ctl.ret = "false"
    /\ running

\* C14: when a bulk operation is over, kill() has been called exactly once
\* for every record that matches its predicate, whatever the other calls
\* returned.
C14_EveryMatchAttemptedOnce ==
    BulkOver => \A p \in Matching : kills[p] = 1

\* C15: when a bulk operation is over, the pids kill() was called for are
\* exactly the pids whose record matches (cpuUsage strictly above the
\* threshold, or owner equal to the name).
C15_SignalsExactlyTheMatches ==
    BulkOver => {p \in AllPids : kills[p] > 0} = Matching

\* C16: a bulk operation returns true exactly when at least one of its
\* kill() calls succeeded: false when no record matched and when every
\* call failed.
C16_ReturnsAnySuccess ==
    (ctl.op \in {"cpu", "user"} /\ ctl.phase = "idle")
        => (ctl.ret = "true" <=> ctl.successCount > 0)

\* A bulk operation whose every kill() call failed has returned false.
C16_Witness ==
    /\ ctl.op \in {"cpu", "user"}
    /\ ctl.phase = "idle"
    /\ ctl.failureCount > 0
    /\ ctl.successCount = 0
    /\ ctl.ret = "false"

RenderStep(w) == pc[w] = "render" /\ pc'[w] = "loop"

StartAccepted == ~monitoringActive /\ monitoringActive'

\* C19: after start_monitor is accepted the monitor is running: active and
\* not paused, with the three threads of the new session spawned, whatever
\* commands came before.
C19_StartedMeansRunning ==
    [][StartAccepted =>
          /\ monitoringActive'
          /\ ~monitoringPaused'
          /\ \A w \in Session(starts') : pc'[w] = Entry(w)]_vars

\* the step is start_monitor being turned down
StartRejected ==
    /\ report' = "Monitoring is already active"
    /\ report # "Monitoring is already active"

\* C20: start_monitor while monitoring is active spawns no thread and
\* changes neither the flags, the sort key, the filter, the update
\* interval nor the registry, whatever its argument.
C20_StartWhileActiveNoOp ==
    [][StartRejected =>
          UNCHANGED <<monitoringActive, monitoringPaused, sortingCriterion,
                      filterCriterion, updateFrequency, processes, pc,
                      starts>>]_vars

\* start_monitor was turned down while monitoring ran.
C20_Witness ==
    /\ report = "Monitoring is already active"
    /\ monitoringActive
    /\ starts = 1

(***************************************************************************)
(* The life cycle as the operator sees it.                                 *)
(***************************************************************************)
\* the monitor is Stopped, or Paused
Stopped == ~monitoringActive
Paused == monitoringActive /\ monitoringPaused

\* what a command without effect would leave alone
LifecycleState == <<monitoringActive, monitoringPaused, sortingCriterion,
                    filterCriterion, updateFrequency, processes, pc>>

\* C21: stop_monitor given while the monitor is Stopped, pause_monitor given
\* while it is Paused and resume_monitor given while it is not Paused
\* (stopped, or running unpaused) leave the active flag, the pause flag, the
\* sort key, the filter, the update interval, the registry and the threads as
\* they were.
C21_NoOpCommandsChangeNothing ==
    [][(\/ StopMonitor /\ Stopped
        \/ PauseMonitor /\ Paused
        \/ ResumeMonitor /\ ~Paused) => UNCHANGED LifecycleState]_vars

\* the life-cycle state stop_monitor leaves behind: the active flag false,
\* which is what tells the threads to stop, and all the rest as it was
StopLeaves == <<FALSE, monitoringPaused, sortingCriterion, filterCriterion,
                updateFrequency, processes, pc>>

\* C22: in every reachable state the interrupt handler leaves the life-cycle
\* state that stop_monitor leaves in that state: the active flag false, the
\* pause flag, the sort key, the filter, the interval, the registry and the
\* threads untouched; handled while the monitor is stopped it changes
\* nothing; and the command loop goes on reading commands.
C22_SigintAsStopMonitor ==
    [][(StopMonitor \/ handleSigint) =>
          /\ LifecycleState' = StopLeaves
          /\ running']_vars

\* the handler has stopped a paused monitor whose threads have not returned
\* yet, and the command loop is still reading
C22_Witness ==
    /\ report = SigintStopped
    /\ ~monitoringActive
    /\ monitoringPaused
    /\ \E w \in Workers : pc[w] \notin {"idle", "done"}
    /\ running

\* C23: the interrupt handler does no more than store false into the active
\* flag and notify the condition variable: it writes nothing to the console,
\* takes no lock and waits for no thread, so that apart from the active flag
\* it leaves every variable of the program as it found it.
C23_HandlerOnlyStoresFlag ==
    [][handleSigint =>
          UNCHANGED <<report, processMutex, pc, monitoringPaused,
                      sortingCriterion, filterCriterion, processes, running,
                      updateFrequency>>]_vars

\* the step is the sample of the system counter by CPU thread w, lines 108-110
SampleStep(w) == pc[w] = "sample" /\ pc'[w] = "lock"

\* C24: a CPU thread that has waited in its pause loop takes its next sample
\* against what it had while it waited: the system delta is the counter read
\* now minus the system baseline retained through the pause, and the delta of
\* every process is its time read now minus the prevTotalTime its record had
\* through the pause; neither baseline has gone back to 0.
C24_BaselineSurvivesPause ==
    [][\A w \in CpuWorkers : retained[w].waited =>
          /\ SampleStep(w) =>
                totalCpuTimeDelta'[w] = getTotalCpuTime - retained[w].total
          /\ PublishStep(w) =>
                LET pid == activeProcesses[w][it[w]].pid
                IN  processes'[pid].cpuUsage =
                        calculateCpuUsage(
                            getProcessTotalTime(pid) - retained[w].prev[pid],
                            totalCpuTimeDelta[w], numCores)]_vars

\* resumed after a wait, the CPU thread has published a usage above zero that
\* it computed against baselines above zero
C24_Witness ==
    \E w \in CpuWorkers :
        /\ retained[w].waited
        /\ ~monitoringPaused
        /\ retained[w].total > 0
        /\ pc[w] = "publish"
        /\ it[w] = 2
        /\ retained[w].prev[1] > 0
        /\ processes[1].prevTotalTime > retained[w].prev[1]
        /\ processes[1].cpuUsage # Zero

(***************************************************************************)
(* The settings.                                                           *)
(***************************************************************************)
\* C25: the update interval is a positive whole number in every reachable
\* state; set_update_freq given no argument, a word, zero or a negative
\* number leaves it as it was, and given a positive whole number sets it to
\* that number.
C25_UpdateFrequencyPositive ==
    /\ [](updateFrequency \in Nat /\ updateFrequency > 0)
    /\ [][/\ \A token \in {"", "abc", "-5", "0"} :
               SetUpdateFreq(token) => updateFrequency' = updateFrequency
          /\ SetUpdateFreq("1") => updateFrequency' = 1
          /\ SetUpdateFreq("10") => updateFrequency' = 10]_vars

\* the interval has been changed, and a later attempt has not undone it
C25_Witness == updateFrequency = 10

\* C26: the sort key is cpu or memory in every reachable state; sort_by cpu
\* and sort_by memory set it to their argument, sort_by with any other word
\* or with none leaves it as it was, and a start_monitor that is accepted
\* with an argument that is neither sets it to cpu.
C26_SortKeyValid ==
    /\ [](sortingCriterion \in {"cpu", "memory"})
    /\ [][/\ \A arg \in {"cpu", "memory"} :
               SortBy(arg) => sortingCriterion' = arg
          /\ \A arg \in {"", "disk"} :
               SortBy(arg) => sortingCriterion' = sortingCriterion
          /\ (~monitoringActive /\ StartMonitor("disk")) =>
               sortingCriterion' = "cpu"]_vars

\* sort_by memory has been accepted before any start_monitor
C26_Witness == sortingCriterion = "memory" /\ starts = 0

\* the filter command names a filter and gives it a value that can be read
ValidFilter(type, token) ==
    \/ type = "user" /\ token # ""
    \/ type \in {"cpu", "memory"} /\ ParsesAsDouble(token)

\* C27: a filter command that names user, cpu or memory and gives a value
\* that can be read makes the filter that type with exactly that value: the
\* user name as typed, the threshold the display compares against equal to
\* the number typed; a filter command with another type, with no value or
\* with a value that is no number leaves the filter as it was.
C27_FilterSetExactly ==
    [][\A a \in SettingsFilterArgs :
          FilterCommand(a[1], a[2]) =>
             IF ValidFilter(a[1], a[2])
             THEN /\ filterCriterion'[1] = a[1]
                  /\ IF a[1] = "user"
                     THEN filterCriterion'[2] = a[2]
                     ELSE stod(filterCriterion'[2]) = ParseDouble(a[2])
             ELSE filterCriterion' = filterCriterion]_vars

\* C28: the log command given at the prompt starts the logger on the file it
\* names, or on process_log.txt when it names none, and reports that logging
\* has started.
C28_LogStartsLogger ==
    [][\A file \in LogArgs :
          LogCommand(file) =>
             /\ logger'.active
             /\ logger'.file = IF file = "" THEN "process_log.txt" ELSE file
             /\ report' = "Logging started"]_vars

(***************************************************************************)
(* The CPU usage formula.                                                  *)
(***************************************************************************)
\* C29: calculateCpuUsage(p, t, n) is 0 whenever t is 0, whatever p and n
\* are; for t above 0, p not below 0 and n above 0 it is not negative, it is
\* p * n * 100 / t, and it is linear in p: the usage of a sum of two process
\* deltas is the sum of their usages.
C29_UsageFormula ==
    usageCall.returned =>
        LET p == usageCall.processTimeDelta
            t == usageCall.totalCpuTimeDelta
            n == usageCall.numCores
            r == usageCall.cpuUsage
        IN  /\ t = 0 => r = Zero
            /\ (t > 0 /\ p >= 0 /\ n > 0) =>
                  /\ r.den > 0 /\ r.num >= 0
                  /\ r.num * t = p * n * 100 * r.den
                  /\ \A q \in 0..MaxDelta :
                        calculateCpuUsage(p + q, t, n) =
                            FracPlus(r, calculateCpuUsage(q, t, n))

\* a call with a process delta of 1 out of a system delta of 3 on two cores
\* has returned 200/3
C29_Witness ==
    /\ usageCall.returned
    /\ usageCall.processTimeDelta = 1
    /\ usageCall.totalCpuTimeDelta = 3
    /\ usageCall.numCores = 2
    /\ usageCall.cpuUsage = [num |-> 200, den |-> 3]

\* C30: while the monitor is paused, with the pause flag and the active flag
\* both set, no thread writes a record into the registry and none renders
\* the table: every thread stays in its pause loop until one of the two flags
\* is cleared.
C30_NoWorkWhilePaused ==
    [][Paused => \A w \in Workers : ~PublishStep(w) /\ ~RenderStep(w)]_vars

(***************************************************************************)
(* Locks and what is done while they are held.                             *)
(***************************************************************************)
\* the step of thread w reads /proc: the system counter at lines 92 and 108,
\* the enumeration at lines 112 and 150, the counters of one process at
\* line 119
ReadsProcessSource(w) ==
    \/ pc[w] = "start" /\ pc'[w] = "loop"
    \/ pc[w] = "sample" /\ pc'[w] = "lock"
    \/ Kind(w) = "cpu" /\ PublishStep(w)

\* C31: the CPU and the memory thread read the process source, that is the
\* enumeration, the counters of each process and the system counter, only
\* while they do not hold the registry mutex; while they hold it they do
\* nothing but write the registry.
C31_ReadsBeforeLock ==
    [][\A w \in CpuWorkers \cup MemWorkers :
          ReadsProcessSource(w) => processMutex # w]_vars

\* the step is a call of kill(pid, SIGKILL)
TerminatorCall == \E pid \in AllPids : kills'[pid] # kills[pid]

\* C32: the bulk kills choose their victims while they hold the registry
\* mutex, release it and only then signal them: no kill() is called while
\* the command thread holds the registry mutex.
C32_KillsOutsideLock ==
    [][TerminatorCall => processMutex # CommandThread]_vars

(***************************************************************************)
(* The interval a CPU usage is computed over.                              *)
(***************************************************************************)
\* the system baseline the cycle of CPU thread w subtracts: the counter the
\* thread had kept from its cycle before, or from line 92
SystemBaseline(w) == previousTotalCpuTime[w] - totalCpuTimeDelta[w]

\* C33: when a CPU thread samples a pid whose record an earlier CPU cycle
\* has sampled, the process delta and the system delta are taken over the
\* same interval: the prevTotalTime in the record was stored in the cycle in
\* which the thread's system baseline was read, also in the first cycle
\* after monitoring has been stopped and started again.
C33_DeltasOverSameInterval ==
    [][\A w \in CpuWorkers :
          (Kind(w) = "cpu" /\ PublishStep(w)) =>
             LET pid == activeProcesses[w][it[w]].pid
             IN  sampledAt[pid] # -1 => sampledAt[pid] = SystemBaseline(w)]_vars

\* a CPU or memory thread is inside its locked block, where it stores the
\* records of one cycle one after the other
BatchUnderWay == \E w \in CpuWorkers \cup MemWorkers : pc[w] = "publish"

\* C34: the display thread, list_processes and the selection of a bulk kill
\* read the registry only at an instant at which no CPU or memory thread is
\* inside its batch of stores, and what the first two copy is the registry
\* of that instant: no reader sees a part of a batch without the rest.
C34_SnapshotsBetweenBatches ==
    [][/\ \A w \in DispWorkers :
            DispCollect(w) =>
               /\ ~BatchUnderWay
               /\ processesVector'[w] = {processes[p] : p \in DOMAIN processes}
       /\ ListProcesses =>
               /\ ~BatchUnderWay
               /\ {screen'[i] : i \in 1..Len(screen')} =
                     {processes[p] : p \in DOMAIN processes}
       /\ KillAllStep => ~BatchUnderWay]_vars

\* the display thread has copied the records of all three processes while
\* the CPU thread is about to store its next batch
C34_Witness ==
    \E d \in DispWorkers : \E w \in CpuWorkers :
        /\ pc[d] = "render"
        /\ Cardinality(processesVector[d]) = 3
        /\ pc[w] = "lock"
        /\ Len(activeProcesses[w]) = 3

\* the filter of the program start and the filters the commands assign
WholeFilters ==
    {<<"none", "">>} \cup {FilterPair(a[1], a[2]) : a \in RacingFilterArgs}

\* the display thread leaves its locked block, in which it has compared
\* every record of a registry that has records with filterCriterion
DisplayAppliesFilter ==
    \E w \in DispWorkers :
        pc[w] = "publish" /\ pc'[w] # "publish" /\ DOMAIN processes # {}

\* C35: whatever filter command runs next to a display cycle, the filter the
\* cycle applies is the one before the command or the one after it, type
\* and value together, and a cpu or memory filter is never compared
\* against a value that is no number.
C35_FilterAppliedWhole ==
    [][DisplayAppliesFilter =>
          /\ filterCriterion \in WholeFilters
          /\ ~StodThrows]_vars

\* the command thread waits in join for a logging thread that waits for a
\* notification, and no thread is on its way to send one
Deadlocked ==
    /\ call[CommandThread].pos = "join"
    /\ lpc = "waiting"
    /\ \A t \in LogCallers : call[t].pos \notin {"push", "notify", "stopnotify"}

\* a thread takes the registry mutex while it holds a mutex of the Logger
TakesRegistryInsideLogger ==
    /\ processMutex' # processMutex
    /\ processMutex' # 0
    /\ \/ m_queueMutex = processMutex'
       \/ call[processMutex'].pos # "idle"

\* C36: the command thread, the sampling threads and the logging thread never
\* reach a state in which they wait for each other for good, and no thread
\* takes the registry mutex while it holds a mutex of the Logger.
C36_NoDeadlock ==
    /\ [] ~Deadlocked
    /\ [][~TakesRegistryInsideLogger]_vars

Written(message) == \E i \in 1..Len(m_logFile) : m_logFile[i] = message

\* C37: however the command loop was left, when main() returns the line
\* "Shutting down Process Manager." is in the log file.
C37_ShutdownLogged == MainReturned => Written(ShuttingDown)

\* Logger::stop has closed the file and returned
StopReturned ==
    /\ ~logger.active
    /\ logger.file = ""
    /\ call[CommandThread].pos = "idle"

\* C38: once Logger::stop has returned, no message is left in the queue:
\* all that log() queued has been written, also the messages of a log()
\* that ran next to the stop().
C38_StopDrainsQueue == StopReturned => m_queue = <<>>

\* the command thread is inside Logger::stop, past the store to m_active
InsideStop == call[CommandThread].pos \in {"stopnotify", "join", "close"}

\* C39: a Logger::stop that has marked the logger inactive returns.
C39_StopReturns == InsideStop ~> ~InsideStop


====
